---- MODULE Spec2Model ----
(***************************************************************************)
(* The pubsub registry of src/pubsub/pubsub.py: a module-level             *)
(* defaultdict(list) from channel to callbacks, and the three functions    *)
(* pub, sub and unsub.  In Spec the callbacks are the RecordingCallback     *)
(* objects of src/test/testPubsub.py: they record the arguments of each    *)
(* call and do nothing else, and pub is one step.  In SpecHandlers a       *)
(* callback may also raise or call sub or unsub, and pub is taken one      *)
(* iteration of its for loop at a time.                                    *)
(*                                                                         *)
(* unsub stores the result of the builtin filter().  On a Python 2         *)
(* interpreter that is a new list; on a Python 3 interpreter it is a       *)
(* one-shot lazy iterator object that has no append method.  The           *)
(* repository pins no interpreter, so the model leaves the choice open     *)
(* (lazyFilter) and represents both kinds of stored value.                 *)
(***************************************************************************)
EXTENDS Integers, Sequences, FiniteSets, TLC

\* ---------------------------------------------------------------- bounds
MaxOps == 4          \* calls of pub/sub/unsub made by the client
NumHandlers == 3     \* distinct callback objects (identities 1..NumHandlers)

Channels == {"foo", "bar"}
Handlers == 1..NumHandlers
\* What a publisher passes: <<positional arguments, keyword arguments>>.
ArgValues == { << <<"bar">>, <<>> >>,
               << <<"foo arg">>, << <<"key", "value">> >> >> }
None == 0

VARIABLES subscriptions, lazyFilter, before, history, running
vars == <<subscriptions, lazyFilter, before, history, running>>

\* ------------------------------------------------- values stored per channel
\* A Python list object holding the callbacks in items.
List(items) == [kind |-> "list", items |-> items, excl |-> <<>>, pos |-> 0]

\* A Python 3 filter object: nested filter(lambda, ...) wrappers (the excluded
\* functions of the lambdas, innermost first) around a list iterator over
\* items that has already handed out the first pos elements.
FilterObject(items, excl, pos) ==
    [kind |-> "filter", items |-> items, excl |-> excl, pos |-> pos]

\* defaultdict(list)
EmptyRegistry == [c \in {} |-> List(<<>>)]

\* defaultdict.__getitem__: a missing key is first bound to list().
Missing(d, channel) ==
    IF channel \in DOMAIN d THEN d ELSE (channel :> List(<<>>)) @@ d

\* Mutant of Lookup: the registry is read under some key, not under channel.
Lookup_AnyKey(d, channel) ==
    LET e == Missing(d, channel) IN e[CHOOSE c \in DOMAIN e : c # channel \/ DOMAIN e = {channel}]

\* __subscriptions[channel]
Lookup(d, channel) == Missing(d, channel)[channel]

\* Handlers 1 and 2 are distinct objects whose __eq__ says they are equal;
\* every other handler is equal to itself only.
PyEq(f, g) == f = g \/ {f, g} = {1, 2}

\* Mutant of IsNot: the test is by equality (func != function).
IsNot_ByEquality(func, function) == ~PyEq(func, function)

\* Mutant of IsNot: the test is inverted (func is function).
IsNot_Inverted(func, function) == func = function

\* lambda func: func is not function  (object identity)
IsNot(func, function) == func # function

RECURSIVE PassesAll(_, _)
PassesAll(func, excl) ==
    IF excl = <<>> THEN TRUE
    ELSE IsNot(func, Head(excl)) /\ PassesAll(func, Tail(excl))

\* The callbacks a for loop over the stored value v yields, in order.
Yield(v) ==
    IF v.kind = "list" THEN v.items
    ELSE SelectSeq(SubSeq(v.items, v.pos + 1, Len(v.items)),
                   LAMBDA func : PassesAll(func, v.excl))

\* The stored value after a for loop has run over it to the end: a list is
\* untouched, an iterator is exhausted.
Exhausted(v) ==
    IF v.kind = "list" THEN v ELSE [v EXCEPT !.pos = Len(v.items)]

\* Mutant of ListAppend: the callback is inserted at the front.
ListAppend_Front(items, function) == <<function>> \o items

\* list.append
ListAppend(items, function) == Append(items, function)

\* Mutant of FilterBuiltin: only the first occurrence is taken out, as
\* list.remove does.
FilterBuiltin_RemoveFirst(lazy, function, v) ==
    LET s == Yield(v)
        first == IF \E k \in 1..Len(s) : s[k] = function
                 THEN CHOOSE k \in 1..Len(s) :
                         s[k] = function /\ \A m \in 1..(k - 1) : s[m] # function
                 ELSE 0
    IN List([k \in 1..(Len(s) - (IF first = 0 THEN 0 ELSE 1)) |->
                IF first = 0 \/ k < first THEN s[k] ELSE s[k + 1]])

\* Mutant of FilterBuiltin: nothing is filtered out, v is stored back.
FilterBuiltin_Keep(lazy, function, v) == v

\* filter(lambda func: func is not function, v)
\* Python 2: a new list, built eagerly.  Python 3: a filter object around
\* iter(v); iter of a filter object is that same object.
FilterBuiltin(lazy, function, v) ==
    IF ~lazy THEN List(SelectSeq(Yield(v), LAMBDA func : IsNot(func, function)))
    ELSE IF v.kind = "list" THEN FilterObject(v.items, <<function>>, 0)
    ELSE FilterObject(v.items, Append(v.excl, function), v.pos)

\* v.append(function) raises AttributeError unless v is a list.
AppendRaises(v) == v.kind # "list"

\* ------------------------------------------------------------- the call log
Call(op, channel, function, args, raised, invoked) ==
    [op |-> op, channel |-> channel, function |-> function, args |-> args,
     raised |-> raised, invoked |-> invoked]

\* RecordingCallback.__call__: what one callback invocation records.
args_for_call(callback, args) == [callback |-> callback, args |-> args]

\* Mutant of Invoke: the keyword arguments are not passed on, callback(*args).
Invoke_NoKwargs(callback, args) == args_for_call(callback, <<args[1], <<>>>>)

\* callback(*args, **kwargs)
Invoke(callback, args) == args_for_call(callback, args)

\* No pub is in progress.  While one is, running holds the state of its for
\* loop: the channel and arguments of the pub, the index at of its record in
\* history, and the iterator of the loop.  A loop over a list object (kind
\* "list") has handed out the first idx elements; the list is the one stored
\* under the channel while attached, and otherwise a list no longer stored
\* anywhere, whose contents are items.  A loop over a filter object (kind
\* "filter") runs on the innermost depth wrappers of the filter object stored
\* under the channel and shares its list iterator.  start is what the channel
\* yielded when pub was called and regAt the handlers subscribed to the channel
\* at each invocation.
Idle ==
    [active |-> FALSE, channel |-> "", args |-> <<>>, at |-> 0, kind |-> "list",
     attached |-> FALSE, items |-> <<>>, idx |-> 0, depth |-> 0,
     start |-> <<>>, regAt |-> <<>>]

\* ------------------------------------------------------------------ actions
Init ==
    /\ subscriptions = EmptyRegistry
    /\ lazyFilter \in BOOLEAN
    /\ before = EmptyRegistry
    /\ history = <<>>
    /\ running = Idle

pub(channel, args) ==
    /\ Len(history) < MaxOps
    /\ LET d == Missing(subscriptions, channel)
           callbacks == Yield(Lookup(subscriptions, channel))
       IN /\ subscriptions' =
                [d EXCEPT ![channel] = Exhausted(Lookup(subscriptions, channel))]
          /\ history' = Append(history,
                Call("pub", channel, None, args, "none",
                     [i \in 1..Len(callbacks) |-> Invoke(callbacks[i], args)]))
    /\ before' = subscriptions
    /\ UNCHANGED <<lazyFilter, running>>

sub(channel, function) ==
    /\ Len(history) < MaxOps
    /\ LET d == Missing(subscriptions, channel)
           v == Lookup(subscriptions, channel)
       IN IF AppendRaises(v)
          THEN /\ subscriptions' = d
               /\ history' = Append(history,
                     Call("sub", channel, function, "", "AttributeError", <<>>))
          ELSE /\ subscriptions' =
                     [d EXCEPT ![channel] =
                        List(ListAppend(v.items, function))]
               /\ history' = Append(history,
                     Call("sub", channel, function, "", "none", <<>>))
    /\ before' = subscriptions
    /\ UNCHANGED <<lazyFilter, running>>

unsub(channel, function) ==
    /\ Len(history) < MaxOps
    /\ LET d == Missing(subscriptions, channel)
       IN subscriptions' =
             [d EXCEPT ![channel] =
                FilterBuiltin(lazyFilter, function,
                                             Lookup(subscriptions, channel))]
    /\ history' = Append(history,
          Call("unsub", channel, function, "", "none", <<>>))
    /\ before' = subscriptions
    /\ UNCHANGED <<lazyFilter, running>>

\* The callback objects a caller can pass to sub or unsub.  Callback objects
\* differ in identity only, so they are numbered in the order in which they
\* are first passed: the ones passed before, and the next new one.
Passable ==
    {h \in Handlers :
        \A g \in 1..(h - 1) : \E k \in 1..Len(history) : history[k].function = g}

Next ==
    \/ \E channel \in Channels, args \in ArgValues : pub(channel, args)
    \/ \E channel \in Channels, function \in Passable : sub(channel, function)
    \/ \E channel \in Channels, function \in Passable : unsub(channel, function)

Spec == Init /\ [][Next]_vars

\* The same program on an interpreter whose filter() builds a list (Python 2).
SpecEager == Init /\ lazyFilter = FALSE /\ [][Next]_vars

\* ------------------------------------------------- reading the call log
CallIds == 1..Len(history)

\* The call just made.  history only grows, and an invariant is checked in
\* every reachable state: what holds of the call just made, and reads history
\* up to that call only, holds of every call.
LastCall == {Len(history)} \ {0}

IsPub(i, c) == history[i].op = "pub" /\ history[i].channel = c
IsSub(i, c, h) ==
    history[i].op = "sub" /\ history[i].channel = c /\ history[i].function = h
IsUnsub(i, c, h) ==
    history[i].op = "unsub" /\ history[i].channel = c /\ history[i].function = h

\* The callbacks call i invoked, in order of invocation.
Invoked(i) ==
    [k \in 1..Len(history[i].invoked) |-> history[i].invoked[k].callback]

Count(s, h) == Cardinality({k \in 1..Len(s) : s[k] = h})
Restrict(s, S) == SelectSeq(s, LAMBDA f : f \in S)

\* s is t with some elements left out.
RECURSIVE IsSubseq(_, _)
IsSubseq(s, t) ==
    IF s = <<>> THEN TRUE
    ELSE IF t = <<>> THEN FALSE
    ELSE IF Head(s) = Head(t) THEN IsSubseq(Tail(s), Tail(t))
    ELSE IsSubseq(s, Tail(t))

\* The handlers subscribed to channel c after the first n calls, as section 4.1
\* of the specification defines subscription: each sub(c, h) appends h, each
\* unsub(c, h) deletes every h.
RECURSIVE Registered(_, _)
Registered(n, c) ==
    IF n = 0 THEN <<>>
    ELSE LET r == Registered(n - 1, c)
             e == history[n]
         IN IF e.channel # c THEN r
            ELSE IF e.op = "sub" THEN Append(r, e.function)
            ELSE IF e.op = "unsub" THEN SelectSeq(r, LAMBDA f : f # e.function)
            ELSE r

\* No call before call i raised.
NoRaiseBefore(i) == \A k \in 1..(i - 1) : history[k].raised = "none"

\* Calls j+1 .. i-1 contain no sub(c, h), resp. no sub or unsub of h on c.
NoSubBetween(j, i, c, h) == \A k \in (j + 1)..(i - 1) : ~IsSub(k, c, h)
UntouchedBetween(j, i, c, h) ==
    \A k \in (j + 1)..(i - 1) : ~IsSub(k, c, h) /\ ~IsUnsub(k, c, h)

\* ------------------------------------------- pub, one loop step at a time
\* Handlers that do more than record: a handler may return, raise, or call
\* sub or unsub (on any channel, with any handler) and then return.

\* The registry after sub(channel, function) where append does not raise.
RegistryAfterSub(d, channel, function) ==
    [Missing(d, channel) EXCEPT ![channel] =
        List(ListAppend(Lookup(d, channel).items, function))]

\* The registry after unsub(channel, function).
RegistryAfterUnsub(lazy, d, channel, function) ==
    [Missing(d, channel) EXCEPT ![channel] =
        FilterBuiltin(lazy, function, Lookup(d, channel))]

\* The list the running loop iterates.
LoopItems(r, d) == IF r.attached THEN d[r.channel].items ELSE r.items

\* The indices at which the iterator of the running loop can stop next: for a
\* list the next index, for a filter object the indices beyond the shared
\* list iterator whose element passes the wrappers of the loop's own object.
Candidates(r, d) ==
    IF r.kind = "list"
    THEN {k \in {r.idx + 1} : k <= Len(LoopItems(r, d))}
    ELSE LET v == d[r.channel]
         IN {k \in (v.pos + 1)..Len(v.items) :
                PassesAll(v.items[k], SubSeq(v.excl, 1, r.depth))}

HasNext(r, d) == Candidates(r, d) # {}

NextIndex(r, d) ==
    CHOOSE k \in Candidates(r, d) : \A m \in Candidates(r, d) : k <= m

NextCallback(r, d) ==
    IF r.kind = "list" THEN LoopItems(r, d)[NextIndex(r, d)]
    ELSE d[r.channel].items[NextIndex(r, d)]

\* The registry once the iterator has handed out its next element, or has
\* found none: only the list iterator inside a filter object is stored there.
RegistryAdvanced(r, d) ==
    IF r.kind = "list" THEN d
    ELSE [d EXCEPT ![r.channel].pos =
             IF HasNext(r, d) THEN NextIndex(r, d) ELSE Len(d[r.channel].items)]

\* pub is called: __subscriptions[channel] is looked up and the for loop takes
\* its iterator.
pubEnter(channel, args) ==
    /\ ~running.active
    /\ Len(history) < MaxOps
    /\ LET d == Missing(subscriptions, channel)
           v == Lookup(subscriptions, channel)
       IN /\ subscriptions' = d
          /\ running' =
                [active |-> TRUE, channel |-> channel, args |-> args,
                 at |-> Len(history) + 1, kind |-> v.kind,
                 attached |-> (v.kind = "list"), items |-> <<>>, idx |-> 0,
                 depth |-> Len(v.excl), start |-> Yield(v), regAt |-> <<>>]
    /\ history' = Append(history, Call("pub", channel, None, args, "running", <<>>))
    /\ before' = subscriptions
    /\ UNCHANGED lazyFilter

\* The loop state and the call log once the next callback has been taken from
\* the iterator and called.
RunningInvoked(r, d) ==
    [r EXCEPT !.idx = IF r.kind = "list" THEN r.idx + 1 ELSE r.idx,
              !.regAt = Append(r.regAt, Registered(Len(history), r.channel))]

HistoryInvoked(r, d) ==
    [history EXCEPT ![r.at].invoked = Append(@, Invoke(NextCallback(r, d), r.args))]

\* The next callback is called and returns.
handlerReturns ==
    /\ running.active /\ HasNext(running, subscriptions)
    /\ subscriptions' = RegistryAdvanced(running, subscriptions)
    /\ running' = RunningInvoked(running, subscriptions)
    /\ history' = HistoryInvoked(running, subscriptions)
    /\ UNCHANGED <<before, lazyFilter>>

\* The next callback is called and raises: the exception leaves the loop and
\* pub.
handlerRaises ==
    /\ running.active /\ HasNext(running, subscriptions)
    /\ subscriptions' = RegistryAdvanced(running, subscriptions)
    /\ running' = [RunningInvoked(running, subscriptions) EXCEPT !.active = FALSE]
    /\ history' = [HistoryInvoked(running, subscriptions) EXCEPT
                      ![running.at].raised = "Exception"]
    /\ UNCHANGED <<before, lazyFilter>>

\* The next callback is called and calls sub(channel, function).  Where append
\* raises, the AttributeError leaves the handler, the loop and pub.
handlerSubs(channel, function) ==
    /\ running.active /\ HasNext(running, subscriptions)
    /\ Len(history) < MaxOps
    /\ LET d == Missing(RegistryAdvanced(running, subscriptions), channel)
           r == RunningInvoked(running, subscriptions)
           h == HistoryInvoked(running, subscriptions)
       IN /\ before' = RegistryAdvanced(running, subscriptions)
          /\ IF AppendRaises(d[channel])
             THEN /\ subscriptions' = d
                  /\ running' = [r EXCEPT !.active = FALSE]
                  /\ history' =
                        Append([h EXCEPT ![running.at].raised = "AttributeError"],
                               Call("sub", channel, function, "",
                                    "AttributeError", <<>>))
             ELSE /\ subscriptions' = RegistryAfterSub(d, channel, function)
                  /\ running' = r
                  /\ history' =
                        Append(h, Call("sub", channel, function, "", "none", <<>>))
    /\ UNCHANGED lazyFilter

\* The next callback is called and calls unsub(channel, function).  An unsub
\* on the channel of the loop binds the channel to a new object; a loop over
\* the list stored until then goes on over that list.
handlerUnsubs(channel, function) ==
    /\ running.active /\ HasNext(running, subscriptions)
    /\ Len(history) < MaxOps
    /\ LET d == RegistryAdvanced(running, subscriptions)
           r == RunningInvoked(running, subscriptions)
       IN /\ before' = d
          /\ subscriptions' = RegistryAfterUnsub(lazyFilter, d, channel, function)
          /\ running' =
                IF channel = r.channel /\ r.kind = "list" /\ r.attached
                THEN [r EXCEPT !.attached = FALSE, !.items = d[channel].items]
                ELSE r
          /\ history' =
                Append(HistoryInvoked(running, subscriptions),
                       Call("unsub", channel, function, "", "none", <<>>))
    /\ UNCHANGED lazyFilter

\* The iterator has no further element: the loop ends and pub returns.
pubReturn ==
    /\ running.active /\ ~HasNext(running, subscriptions)
    /\ subscriptions' = RegistryAdvanced(running, subscriptions)
    /\ running' = [running EXCEPT !.active = FALSE]
    /\ history' = [history EXCEPT ![running.at].raised = "none"]
    /\ UNCHANGED <<before, lazyFilter>>

NextHandlers ==
    \/ \E channel \in Channels, args \in ArgValues : pubEnter(channel, args)
    \/ handlerReturns
    \/ handlerRaises
    \/ \E channel \in Channels, function \in Passable :
          handlerSubs(channel, function)
    \/ \E channel \in Channels, function \in Passable :
          handlerUnsubs(channel, function)
    \/ pubReturn
    \/ \E channel \in Channels, function \in Passable :
          ~running.active /\ sub(channel, function)
    \/ \E channel \in Channels, function \in Passable :
          ~running.active /\ unsub(channel, function)

SpecHandlers == Init /\ [][NextHandlers]_vars

\* ------------------------------------------------------------------ claims

\* C1 (Removal): once unsub(c, h) has returned, no later pub(c, ...) invokes h,
\* for as long as no later sub(c, h) has been called.
C1_Removal ==
    \A i \in LastCall, c \in Channels, h \in Handlers :
        ( /\ IsPub(i, c)
          /\ \E j \in 1..(i - 1) : IsUnsub(j, c, h) /\ NoSubBetween(j, i, c, h) )
        => Count(Invoked(i), h) = 0

\* C1 witness: test_unsubscribing_stops_calls.  h is subscribed, a pub invokes
\* it, h is unsubscribed, and the next pub of the channel does not invoke it.
C1_Witness ==
    \E c \in Channels, h \in Handlers :
        /\ Len(history) = 4
        /\ IsSub(1, c, h) /\ IsPub(2, c) /\ Count(Invoked(2), h) = 1
        /\ IsUnsub(3, c, h) /\ IsPub(4, c) /\ Count(Invoked(4), h) = 0

\* C2 (Removal leaves the others unaffected): after unsub(c, h), every other
\* handler g subscribed to c is invoked by every later pub(c, ...) as often and
\* in the same relative order as it was registered before the unsub, until g
\* itself is subscribed or unsubscribed again.  (Stated for runs in which no
\* earlier call raised.)
C2_OthersUnaffected ==
    \A i \in CallIds, c \in Channels, h \in Handlers :
        \A j \in 1..(i - 1) :
            ( IsPub(i, c) /\ IsUnsub(j, c, h) /\ NoRaiseBefore(i) )
            => LET S == {g \in Handlers \ {h} : UntouchedBetween(j, i, c, g)}
               IN Restrict(Invoked(i), S) = Restrict(Registered(j - 1, c), S)

\* C3: after sub(c, h) of a handler not subscribed before, and no sub or unsub
\* of h on c since, pub(c, args) invokes h exactly once, with args, and also
\* invokes every handler that was subscribed to c before and has not been
\* unsubscribed since.
C3_SubThenPub ==
    \A i \in CallIds, c \in Channels, h \in Handlers :
        \A j \in 1..(i - 1) :
            ( /\ IsPub(i, c) /\ IsSub(j, c, h)
              /\ Count(Registered(j - 1, c), h) = 0
              /\ UntouchedBetween(j, i, c, h) )
            => /\ Count(Invoked(i), h) = 1
               /\ \A k \in 1..Len(history[i].invoked) :
                     history[i].invoked[k].args = history[i].args
               /\ \A g \in Handlers :
                     (\A k \in j..(i - 1) : ~IsUnsub(k, c, g))
                     => Count(Invoked(i), g) >= Count(Registered(j - 1, c), g)

\* C4 (subscribe always succeeds): no sub call raises, and the sub call just
\* made has appended its handler at the end of the channel's sequence.
C4_SubSucceeds ==
    /\ \A i \in CallIds : history[i].op = "sub" => history[i].raised = "none"
    /\ Len(history) > 0 /\ history[Len(history)].op = "sub"
       => LET e == history[Len(history)]
          IN Yield(Lookup(subscriptions, e.channel))
                = Append(Yield(Lookup(before, e.channel)), e.function)

\* C5 (Order): one pub(c, ...) invokes handlers in subscription order: the
\* sequence it invokes is the sequence of registrations on c with some left
\* out; and if every sub(c, h1) still in force came before every sub(c, h2)
\* still in force, every invocation of h1 comes before every invocation of h2.
C5_Order ==
    \A i \in LastCall, c \in Channels :
        IsPub(i, c)
        => LET r == Registered(i - 1, c)
               v == Invoked(i)
           IN /\ IsSubseq(v, r)
              /\ \A h1, h2 \in Handlers :
                    ( /\ h1 # h2
                      /\ \A a, b \in 1..Len(r) : r[a] = h1 /\ r[b] = h2 => a < b )
                    => \A a, b \in 1..Len(v) : v[a] = h1 /\ v[b] = h2 => a < b

\* C5 witness: h1 then h2 are subscribed, a third handler is unsubscribed, and
\* the pub invokes h1 and then h2.
C5_Witness ==
    \E c \in Channels, h1, h2, h3 \in Handlers :
        /\ h1 # h2 /\ h3 # h1 /\ h3 # h2
        /\ Len(history) = 4
        /\ IsSub(1, c, h1) /\ IsSub(2, c, h2) /\ IsUnsub(3, c, h3)
        /\ IsPub(4, c) /\ Invoked(4) = <<h1, h2>>

\* C6 (Isolation): pub(c, ...) invokes only handlers subscribed to c; a handler
\* subscribed only to other channels is not invoked.
C6_Isolation ==
    \A i \in LastCall, c \in Channels :
        IsPub(i, c)
        => LET r == Registered(i - 1, c)
           IN \A h \in Handlers :
                 Count(r, h) = 0 => Count(Invoked(i), h) = 0

\* C6 witness: h is subscribed to d only, g to c; pub(c) invokes g and not h.
C6_Witness ==
    \E c, d \in Channels, g, h \in Handlers :
        /\ c # d /\ g # h
        /\ Len(history) = 3
        /\ IsSub(1, d, h) /\ IsSub(2, c, g)
        /\ IsPub(3, c) /\ Invoked(3) = <<g>>

\* C7 (Idempotent removal): unsub(c, h) with h not subscribed to c raises
\* nothing and changes nothing that a later call can observe: on every channel
\* a pub would invoke the same handlers as before the unsub, a second pub after
\* that one too, and a sub would raise exactly if it raised before.
C7_NoopUnsub ==
    ( Len(history) > 0 /\ history[Len(history)].op = "unsub"
      /\ Count(Registered(Len(history) - 1, history[Len(history)].channel),
               history[Len(history)].function) = 0 )
    => /\ history[Len(history)].raised = "none"
       /\ \A ch \in Channels :
             LET new == Lookup(subscriptions, ch)
                 old == Lookup(before, ch)
             IN /\ Yield(new) = Yield(old)
                /\ Yield(Exhausted(new)) = Yield(Exhausted(old))
                /\ AppendRaises(new) = AppendRaises(old)

\* C8 (No-op publish): pub on a channel with no subscribers, never referenced
\* or with every handler unsubscribed again, invokes nothing and does not
\* raise.
C8_NoopPublish ==
    \A i \in LastCall, c \in Channels :
        ( IsPub(i, c) /\ Registered(i - 1, c) = <<>> )
        => history[i].invoked = <<>> /\ history[i].raised = "none"

\* C8 witness: a pub on a channel never referenced, and a pub on a channel
\* whose only handler was subscribed and unsubscribed again; neither invokes
\* anything.
C8_Witness ==
    \E c, d \in Channels, h \in Handlers :
        /\ c # d
        /\ Len(history) = 4
        /\ IsPub(1, d) /\ history[1].invoked = <<>>
        /\ IsSub(2, c, h) /\ history[2].raised = "none" /\ IsUnsub(3, c, h)
        /\ IsPub(4, c) /\ history[4].invoked = <<>>

\* C9 (Multi-channel): a handler h subscribed once to c and also subscribed
\* to another channel d is invoked exactly once by each pub(c, ...), whatever
\* was called on d, unsub(d, h) included.
C9_MultiChannel ==
    \A i \in CallIds, c \in Channels, h \in Handlers :
        ( /\ IsPub(i, c)
          /\ Count(Registered(i - 1, c), h) = 1
          /\ \E d \in Channels \ {c} : \E j \in 1..(i - 1) : IsSub(j, d, h) )
        => Count(Invoked(i), h) = 1

\* The number of sub(c, h) calls among the first n calls that no later
\* unsub(c, h) among them follows.
SubCallsSinceUnsub(n, c, h) ==
    Cardinality({k \in 1..n : IsSub(k, c, h)
                              /\ \A m \in (k + 1)..n : ~IsUnsub(m, c, h)})

\* C10 (No deduplication): each pub(c, ...) invokes h as many times as
\* sub(c, h) was called since the last unsub(c, h).
C10_NoDedup ==
    \A i \in CallIds, c \in Channels, h \in Handlers :
        IsPub(i, c) => Count(Invoked(i), h) = SubCallsSinceUnsub(i - 1, c, h)

\* C11 (unsub removes every occurrence): right after unsub(c, h) the channel
\* yields no h, however often h was subscribed, and a pub(c, ...) that comes
\* next invokes h zero times.
C11_RemovesAll ==
    \A i \in LastCall, c \in Channels, h \in Handlers :
        /\ IsUnsub(i, c, h) => Count(Yield(Lookup(subscriptions, c)), h) = 0
        /\ ( IsPub(i, c) /\ i - 1 \in CallIds /\ IsUnsub(i - 1, c, h) )
           => Count(Invoked(i), h) = 0

\* C11 witness: h is subscribed twice, unsubscribed once, and the next pub
\* invokes nothing.
C11_Witness ==
    \E c \in Channels, h \in Handlers :
        /\ Len(history) = 4
        /\ IsSub(1, c, h) /\ IsSub(2, c, h) /\ IsUnsub(3, c, h)
        /\ Count(Yield(Lookup(before, c)), h) = 0
        /\ IsPub(4, c) /\ Invoked(4) = <<>>

\* C12 (Pass-through): every handler one pub invokes receives the positional
\* and keyword arguments given to that pub, unchanged.
C12_PassThrough ==
    \A i \in LastCall :
        history[i].op = "pub"
        => \A k \in 1..Len(history[i].invoked) :
              history[i].invoked[k].args = history[i].args

\* C12 witness: a pub with keyword arguments invokes two handlers, and both
\* record the positional and the keyword arguments of the pub.
C12_Witness ==
    \E i \in CallIds :
        /\ history[i].op = "pub"
        /\ history[i].args[2] # <<>>
        /\ Len(history[i].invoked) = 2
        /\ history[i].invoked[1].callback # history[i].invoked[2].callback
        /\ \A k \in 1..2 : history[i].invoked[k].args = history[i].args

\* C13 (publish only reads): a pub leaves what every channel yields unchanged,
\* and two consecutive pub(c, ...) invoke the same sequence of handlers.
C13_PubReadsOnly ==
    /\ ( Len(history) > 0 /\ history[Len(history)].op = "pub" )
       => \A ch \in Channels :
             Yield(Lookup(subscriptions, ch)) = Yield(Lookup(before, ch))
    /\ \A i \in CallIds, c \in Channels :
          ( IsPub(i, c) /\ i + 1 \in CallIds /\ IsPub(i + 1, c) )
          => Invoked(i + 1) = Invoked(i)

\* C14 (Refinement): every pub(c, ...) invokes exactly the reference sequence:
\* h appended by each sub(c, h), every h deleted by each unsub(c, h).
C14_Refinement ==
    \A i \in CallIds, c \in Channels :
        IsPub(i, c) => Invoked(i) = Registered(i - 1, c)

\* C18 (Channel frame): sub(c, h) and unsub(c, h) leave the stored value of
\* every other channel, and the set of other channels known to the registry,
\* as they were; sub(c, h) keeps what c yielded before as a prefix of what it
\* yields now, with at most h added at the end.
C18_ChannelFrame ==
    ( Len(history) > 0 /\ history[Len(history)].op \in {"sub", "unsub"} )
    => LET e == history[Len(history)]
           new == Yield(Lookup(subscriptions, e.channel))
           old == Yield(Lookup(before, e.channel))
       IN /\ \A d \in Channels \ {e.channel} :
                /\ d \in DOMAIN subscriptions <=> d \in DOMAIN before
                /\ Lookup(subscriptions, d) = Lookup(before, d)
          /\ e.op = "sub"
             => /\ Len(new) >= Len(old)
                /\ SubSeq(new, 1, Len(old)) = old
                /\ new \in {old, Append(old, e.function)}

\* C18 witness: both channels hold handlers, and a sub has just appended a
\* different handler behind the one c already held.
C18_Witness ==
    \E c, d \in Channels, g, h \in Handlers :
        /\ c # d /\ g # h
        /\ Len(history) = 3
        /\ IsSub(1, d, g) /\ IsSub(2, c, g) /\ IsSub(3, c, h)
        /\ Yield(Lookup(subscriptions, d)) = <<g>>
        /\ Yield(Lookup(subscriptions, c)) = <<g, h>>

\* C19 (Identity matching): after unsub(c, h), a handler g that compares equal
\* to h but is another object is still invoked by every later pub(c, ...), as
\* often as it was registered before the unsub (until g itself is subscribed
\* or unsubscribed again; stated for runs in which no earlier call raised).
C19_Identity ==
    \A i \in CallIds, c \in Channels, g, h \in Handlers :
        \A j \in 1..(i - 1) :
            ( /\ g # h /\ PyEq(g, h)
              /\ IsPub(i, c) /\ IsUnsub(j, c, h) /\ NoRaiseBefore(i)
              /\ UntouchedBetween(j, i, c, g) )
            => Count(Invoked(i), g) = Count(Registered(j - 1, c), g)

\* C19, the part about unsub alone: right after unsub(c, h) the channel yields
\* an equal but distinct handler g as often as before.
C19_KeepsEqualHandler ==
    ( Len(history) > 0 /\ history[Len(history)].op = "unsub" )
    => LET e == history[Len(history)]
       IN \A g \in Handlers :
             ( g # e.function /\ PyEq(g, e.function) )
             => Count(Yield(Lookup(subscriptions, e.channel)), g)
                   = Count(Yield(Lookup(before, e.channel)), g)

\* C15 (Failure propagation): when a handler raises during pub(c, ...) and no
\* handler of that pub called sub or unsub, pub raises, it has invoked the
\* handlers of c up to and including the one that raised and none after it,
\* and every channel yields the same handlers as before the pub.
C15_FailurePropagation ==
    ( /\ Len(history) > 0 /\ running.at = Len(history) /\ ~running.active
      /\ Len(history[running.at].invoked) > 0
      /\ history[running.at].raised # "none" )
    => /\ history[running.at].raised = "Exception"
       /\ Invoked(running.at)
             = SubSeq(running.start, 1, Len(Invoked(running.at)))
       /\ \A ch \in Channels :
             Yield(Lookup(subscriptions, ch)) = Yield(Lookup(before, ch))

\* C16 (Re-entrant subscribe): a pub invokes only the handlers that were
\* registered on its channel when it was called, in that order, so at most as
\* many as there were, whatever the handlers subscribe meanwhile.
C16_Snapshot ==
    running.at > 0
    => /\ Len(Invoked(running.at)) <= Len(running.start)
       /\ Invoked(running.at)
             = SubSeq(running.start, 1, Len(Invoked(running.at)))

\* C17 (Re-entrant unsubscribe): every handler a pub invokes is subscribed to
\* the channel at the moment it is invoked; a handler unsubscribed by an
\* earlier handler of the same pub is not invoked in the rest of that pub.
C17_InvokedAreRegistered ==
    running.at > 0
    => \A k \in 1..Len(running.regAt) :
          Count(running.regAt[k], Invoked(running.at)[k]) > 0

TypeOK ==
    /\ lazyFilter \in BOOLEAN
    /\ DOMAIN subscriptions \subseteq Channels
    /\ Len(history) <= MaxOps
====
